---- MODULE Spec2Model ----
(***************************************************************************)
(* The lead repository (backend/app/crud/lead.py), the Lead models         *)
(* (backend/app/models/lead.py) and the request handlers                   *)
(* (backend/app/api/v1/endpoints/leads.py) as a state machine.             *)
(*                                                                         *)
(* The store is the MongoDB collection `leads`: a map from ObjectId to a   *)
(* document, a document being a partial function from field names to      *)
(* values.  Each caller runs one request at a time; a coroutine is cut at  *)
(* the awaits where another request can touch the same data: between the   *)
(* read and the write of CRUDLead.update, between the two queries of       *)
(* get_leads, and while a handler awaits broadcast_lead_change.  ObjectIds *)
(* are modelled by the positive integers in allocation order, the          *)
(* malformed id string by 0.                                               *)
(***************************************************************************)
EXTENDS Integers, Sequences, FiniteSets, TLC

\* ---------------------------------------------------------------- bounds
\* Number of requests issued in one behaviour.
MaxOps == 2
\* Last tick of the clock; datetime.utcnow() stops advancing there.
MaxTime == 1
\* Last page number a list request asks for.
MaxPage == 3
\* Largest total that total_pages is computed for.
MaxTotal == 12

\* ------------------------------------------------------------- constants
\* Python's None where the field holds a datetime (Optional[datetime]).
NoTime == -1
\* Python's None where the field holds a string (from_stage of the seed entry).
None == "None"
\* Optional[Lead] = None: what get / update / delete return for no document.
NoLead == [none |-> TRUE]
\* An id string that bson.ObjectId() rejects (raises InvalidId).
MalformedId == 0

\* The callers; a caller's name is the user_id it passes to the handlers.
Callers == {"u1", "u2"}
\* Values of current_stage (app.models.enums.Stage; any str is accepted).
Stages == {"NEW_LEAD", "STAGE_2", "STAGE_3"}

VARIABLES
    store,        \* collection leads: ObjectId -> document
    nextId,       \* the next ObjectId insert_one generates
    now,          \* the last value datetime.utcnow() returned
    uniqueEmail,  \* whether the collection has a unique index on email
    pc,           \* per caller: "idle", "update_write", "broadcast", "get_count"
    req,          \* per caller: the locals of its suspended coroutine
    resp,         \* the outcome a caller received in the last step, if any
    broadcasts,   \* the calls of manager.broadcast_lead_change, in order
    deleted,      \* ids a delete has removed (history variable)
    ops           \* number of requests issued so far

vars == <<store, nextId, now, uniqueEmail, pc, req, resp, broadcasts, deleted, ops>>

\* ------------------------------------------------------------- the models

\* Fields of LeadBase (models/lead.py 6-48).
LeadBaseFields ==
    {"name", "email", "company", "status", "engaged", "current_stage",
     "stage_updated_at", "stage_history", "last_contacted"}

\* Fields of Lead (models/lead.py 50-57).
LeadFields == LeadBaseFields \cup {"id", "created_at", "updated_at"}

\* Fields of Lead with no default: Lead(**d) raises ValidationError without them.
LeadRequired == {"id", "name", "email", "company", "created_at", "updated_at"}

\* Fields of LeadUpdate (models/lead.py 81-92).
LeadUpdateFields ==
    {"name", "email", "company", "current_stage", "engaged", "last_contacted", "status"}

\* The defaults Lead(**d) fills in for an absent key.
LeadDefault(k) ==
    CASE k = "status" -> "Not Engaged"
      [] k = "engaged" -> FALSE
      [] k = "current_stage" -> "NEW_LEAD"
      [] k = "stage_updated_at" -> NoTime
      [] k = "stage_history" -> <<>>
      [] k = "last_contacted" -> NoTime

ValidationError == [error |-> "ValidationError"]

\* Lead(**d) / Lead.model_validate(d): unknown keys are ignored, absent keys
\* take their default, an absent required key raises ValidationError.
LeadValidate(d) ==
    IF LeadRequired \subseteq DOMAIN d
    THEN [k \in LeadFields |-> IF k \in DOMAIN d THEN d[k] ELSE LeadDefault(k)]
    ELSE ValidationError

IsLead(x) == DOMAIN x = LeadFields

\* dict.update / $set: the keys of b override those of a.
DictUpdate(a, b) ==
    [k \in DOMAIN a \cup DOMAIN b |-> IF k \in DOMAIN b THEN b[k] ELSE a[k]]

\* ObjectId(s) succeeds.
IsObjectId(i) == i # MalformedId

\* The document as find_one returns it: the stored fields and _id.
RawDoc(st, i) == DictUpdate(st[i], [_id |-> i])

\* CRUDLead._convert_id: pops _id and stores it under id.
ConvertId(lead_data) ==
    IF "_id" \in DOMAIN lead_data
    THEN [k \in (DOMAIN lead_data \ {"_id"}) \cup {"id"} |->
             IF k = "id" THEN lead_data["_id"] ELSE lead_data[k]]
    ELSE lead_data

\* ------------------------------------------------------------- the inputs

\* A LeadCreate value (already validated by the request layer).
LeadCreate(email, current_stage, stage_updated_at, stage_history) ==
    [name |-> "A", email |-> email, company |-> "Acme", status |-> "Not Engaged",
     engaged |-> FALSE, current_stage |-> current_stage,
     stage_updated_at |-> stage_updated_at, stage_history |-> stage_history,
     last_contacted |-> NoTime]

\* The create inputs: with the defaults, and with a history and a stage
\* time supplied by the client.
CreateInputs ==
    { LeadCreate("a@x.com", "NEW_LEAD", NoTime, <<>>),
      LeadCreate("b@x.com", "NEW_LEAD", NoTime, <<>>),
      LeadCreate("a@x.com", "STAGE_2", 0,
                 << [from_stage |-> "STAGE_3", to_stage |-> "STAGE_2", changed_at |-> 0] >>) }

\* LeadUpdate values, each given by the fields that were set (model_fields_set)
\* and their values.  The request layer strips null-valued keys
\* (endpoints/leads.py 132), so a set field holds a value.
UpdateInputs ==
    { [email |-> "b@x.com"], [current_stage |-> "STAGE_3"],
      [name |-> "B", current_stage |-> "STAGE_2"] }

\* Ids a request can name: the malformed one and those allocated so far (of
\* leads in the store, or deleted from it).
RequestIds == MalformedId .. (nextId - 1)

\* ------------------------------------------------------------- the clock

Min(a, b) == IF a <= b THEN a ELSE b

\* n successive reads of datetime.utcnow(): non-decreasing, starting no
\* earlier than the last read, the clock advancing by at most one tick.
ClockReads(n) ==
    { s \in [1..n -> now .. Min(now + 1, MaxTime)] :
        \A i \in 1..(n - 1) : s[i] <= s[i + 1] }

\* ------------------------------------------------------------- the store

\* The unique index on email rejects doc at key i (DuplicateKeyError).
DuplicateKey(st, i, doc) ==
    /\ uniqueEmail
    /\ "email" \in DOMAIN doc
    /\ \E j \in DOMAIN st : j # i /\ "email" \in DOMAIN st[j] /\ st[j]["email"] = doc["email"]

\* collection.insert_one(doc) under a fresh ObjectId.
InsertOne(st, i, doc) == DictUpdate(st, [j \in {i} |-> doc])

\* A delete that reads the document and leaves it in the collection.
FindOneKeepsDocument(st, i) == st

\* collection.find_one_and_delete: the store without i.
FindOneAndDelete(st, i) == [j \in DOMAIN st \ {i} |-> st[j]]

\* An update that replaces the document by update_dict instead of $set-ting it.
FindOneAndReplace(st, i, update_dict) ==
    IF i \in DOMAIN st
    THEN [st EXCEPT ![i] = update_dict]
    ELSE st

\* collection.find_one_and_update({"_id": i}, {"$set": update_dict}): no upsert.
FindOneAndUpdate(st, i, update_dict) ==
    IF i \in DOMAIN st
    THEN [st EXCEPT ![i] = DictUpdate(st[i], update_dict)]
    ELSE st

\* --------------------------------------------------------- the repository

\* A get that lets the InvalidId of a malformed id escape.
GetUnguarded(lead_id) ==
    IF ~IsObjectId(lead_id) THEN [error |-> "InvalidId"]
    ELSE IF lead_id \notin DOMAIN store THEN NoLead
    ELSE LET l == LeadValidate(ConvertId(RawDoc(store, lead_id)))
         IN IF IsLead(l) THEN l ELSE NoLead

\* CRUDLead.get: None for an absent document and for any exception
\* (a malformed id, a document Lead rejects).
get(lead_id) ==
    IF ~IsObjectId(lead_id) THEN NoLead
    ELSE IF lead_id \notin DOMAIN store THEN NoLead
    ELSE LET l == LeadValidate(ConvertId(RawDoc(store, lead_id)))
         IN IF IsLead(l) THEN l ELSE NoLead

\* lead_data.dict(exclude_none=True): the Optional fields holding None are dropped.
ExcludeNone(lead_data) ==
    [k \in {f \in DOMAIN lead_data :
               ~(f \in {"stage_updated_at", "last_contacted"} /\ lead_data[f] = NoTime)}
        |-> lead_data[k]]

\* A create whose stamps do not override what the input carried.
CreateDictInputWins(lead_data, t) ==
    DictUpdate([created_at |-> t[1],
                updated_at |-> t[2],
                stage_updated_at |-> t[3],
                stage_history |-> << [from_stage |-> None,
                                      to_stage |-> lead_data.current_stage,
                                      changed_at |-> t[4]] >>],
               ExcludeNone(lead_data))

\* CRUDLead.create, lines 68-78: the document to insert; t holds the four
\* clock reads in evaluation order.
CreateDict(lead_data, t) ==
    DictUpdate(ExcludeNone(lead_data),
        [created_at |-> t[1],
         updated_at |-> t[2],
         stage_updated_at |-> t[3],
         stage_history |-> << [from_stage |-> None,
                               to_stage |-> lead_data.current_stage,
                               changed_at |-> t[4]] >>])

\* lead_update.model_dump(exclude_unset=True): the fields that were set.
ModelDumpExcludeUnset(lead_update) ==
    [k \in DOMAIN lead_update \cap LeadUpdateFields |-> lead_update[k]]

\* A stage change that stores the new entry alone, dropping the history read.
StageDeltaDropsHistory(update_dict, current_lead, t) ==
    IF /\ "current_stage" \in DOMAIN update_dict
       /\ current_lead # NoLead
       /\ current_lead.current_stage # update_dict["current_stage"]
    THEN [stage_updated_at |-> t[2],
          stage_history |-> << [from_stage |-> current_lead.current_stage,
                                to_stage |-> update_dict["current_stage"],
                                changed_at |-> t[1]] >>]
    ELSE <<>>

\* A stage change recorded whenever current_stage is in the input, changed or not.
StageDeltaUnconditional(update_dict, current_lead, t) ==
    IF "current_stage" \in DOMAIN update_dict /\ current_lead # NoLead
    THEN [stage_updated_at |-> t[2],
          stage_history |-> Append(current_lead.stage_history,
                                   [from_stage |-> current_lead.current_stage,
                                    to_stage |-> update_dict["current_stage"],
                                    changed_at |-> t[1]])]
    ELSE <<>>

\* CRUDLead.update, lines 95-104: the stage change added to update_dict when
\* the lead read differs in current_stage; t[1], t[2] are the clock reads.
StageDelta(update_dict, current_lead, t) ==
    IF /\ "current_stage" \in DOMAIN update_dict
       /\ current_lead # NoLead
       /\ current_lead.current_stage # update_dict["current_stage"]
    THEN [stage_updated_at |-> t[2],
          stage_history |-> Append(current_lead.stage_history,
                                   [from_stage |-> current_lead.current_stage,
                                    to_stage |-> update_dict["current_stage"],
                                    changed_at |-> t[1]])]
    ELSE <<>>

\* CRUDLead.update, lines 93-106: the $set document.
UpdateDict(lead_update, current_lead, t) ==
    DictUpdate(DictUpdate(ModelDumpExcludeUnset(lead_update),
                          StageDelta(ModelDumpExcludeUnset(lead_update), current_lead, t)),
               [updated_at |-> t[3]])

\* CRUDLead.update, lines 108-116: what the call yields once the store has
\* answered: an exception, None, or the validated document.
UpdateOutcome(st, i, update_dict) ==
    IF ~IsObjectId(i) THEN [error |-> "InvalidId"]
    ELSE IF i \notin DOMAIN st THEN NoLead
    ELSE IF DuplicateKey(st, i, update_dict) THEN [error |-> "DuplicateKeyError"]
    ELSE LeadValidate(RawDoc(FindOneAndUpdate(st, i, update_dict), i))

\* The store after CRUDLead.update's find_one_and_update.
UpdateStore(st, i, update_dict) ==
    IF IsObjectId(i) /\ i \in DOMAIN st /\ ~DuplicateKey(st, i, update_dict)
    THEN FindOneAndUpdate(st, i, update_dict)
    ELSE st

\* ------------------------------------------------------------ the handlers

\* The parameters of CRUDLead.update and the keywords update_lead passes.
UpdateParams == {"id", "lead_update"}
UpdateLeadKeywords == {"id", "update_data"}

\* A Python call binds: every keyword names a parameter, none is missing.
CallBinds(keywords, params) == keywords = params

\* create_lead's except clauses: exception -> status.
CreateLeadStatus(exc) == IF exc = "DuplicateLeadException" THEN 409 ELSE 500

\* update_lead's except clauses.
UpdateLeadStatus(exc) ==
    IF exc = "LeadNotFoundException" THEN 404
    ELSE IF exc = "InvalidStageTransitionException" THEN 400
    ELSE 500

\* delete_lead's except clauses.
DeleteLeadStatus(exc) == IF exc = "LeadNotFoundException" THEN 404 ELSE 500

\* get_lead's except clauses.
GetLeadStatus(exc) == IF exc = "LeadNotFoundException" THEN 404 ELSE 500

\* The status of a handler that returns value under response_model=Lead:
\* a value that is no Lead fails response validation.
ReturnStatus(ok_status, value) == IF IsLead(value) THEN ok_status ELSE 500

NoReq == [op |-> "none"]
NoResp == [op |-> "none"]

\* What the caller sees of a value: a Lead, None, or the exception raised.
Body(value) ==
    IF IsLead(value) THEN "Lead"
    ELSE IF value = NoLead THEN "None"
    ELSE value.error

\* Caller p's request op on id i with input ends in this step: it receives
\* status (0: a plain return or raise of the repository) and value.  hit tells
\* whether the store held what the request names when the repository served
\* it: the lead of that id, or for a create a lead with the input's email.
Respond(p, op, i, input, hit, status, value) ==
    resp' = [op |-> op, id |-> i, input |-> input, hit |-> hit,
             status |-> status, body |-> Body(value)]

\* The store holds a lead with this email.
EmailTaken(st, email) ==
    \E j \in DOMAIN st : "email" \in DOMAIN st[j] /\ st[j]["email"] = email

\* A call that does not pass on who made the change.
BroadcastCallUnattributed(lead, action, user_id) ==
    [lead |-> Body(lead), id |-> IF IsLead(lead) THEN lead.id ELSE MalformedId,
     action |-> action, user_id |-> None]

\* One call of manager.broadcast_lead_change(lead, action, user_id).
BroadcastCall(lead, action, user_id) ==
    [lead |-> Body(lead), id |-> IF IsLead(lead) THEN lead.id ELSE MalformedId,
     action |-> action, user_id |-> user_id]

\* The collection as the process finds it: empty, or holding one lead that an
\* earlier create stored (at clock 0).
InitialStores ==
    { <<>>,
      InsertOne(<<>>, 1, CreateDict(LeadCreate("a@x.com", "NEW_LEAD", NoTime, <<>>),
                                    [i \in 1..4 |-> 0])) }

Init ==
    /\ store \in InitialStores
    /\ nextId = Cardinality(DOMAIN store) + 1
    /\ now = 0
    /\ uniqueEmail \in BOOLEAN
    /\ pc = [p \in Callers |-> "idle"]
    /\ req = [p \in Callers |-> NoReq]
    /\ resp = NoResp
    /\ broadcasts = <<>>
    /\ deleted = {}
    /\ ops = 0

\* A caller issues a request.
Issue(p) ==
    /\ pc[p] = "idle"
    /\ ops < MaxOps
    /\ ops' = ops + 1

\* The coroutine of p is suspended at label with locals r.
Suspend(p, label, r) ==
    /\ pc' = [pc EXCEPT ![p] = label]
    /\ req' = [req EXCEPT ![p] = r]
    /\ resp' = NoResp

\* The coroutine of p has ended.
Finish(p) ==
    /\ pc' = [pc EXCEPT ![p] = "idle"]
    /\ req' = [req EXCEPT ![p] = NoReq]

\* create_lead, lines 71-75: lead.create, then the call of broadcast_lead_change.
\* create's insert_one and the find_one of the inserted _id (crud/lead.py 81-84)
\* are taken as one step.
create_lead(p, lead_data) ==
    /\ Issue(p)
    /\ \E t \in ClockReads(4) :
         LET lead_dict == CreateDict(lead_data, t) IN
         /\ now' = t[4]
         /\ IF DuplicateKey(store, nextId, lead_dict)
            THEN /\ Respond(p, "create_lead", nextId, lead_data, TRUE,
                            CreateLeadStatus("DuplicateKeyError"), [error |-> "DuplicateKeyError"])
                 /\ Finish(p)
                 /\ UNCHANGED <<store, nextId, broadcasts>>
            ELSE LET st == InsertOne(store, nextId, lead_dict)
                     created_lead == LeadValidate(ConvertId(RawDoc(st, nextId)))
                 IN /\ store' = st
                    /\ nextId' = nextId + 1
                    /\ broadcasts' = Append(broadcasts, BroadcastCall(created_lead, "create", p))
                    /\ Suspend(p, "broadcast",
                               [op |-> "create_lead", id |-> nextId, input |-> lead_data,
                                hit |-> EmailTaken(store, lead_data.email),
                                lead |-> created_lead])
    /\ UNCHANGED <<uniqueEmail, deleted>>

\* get_lead, lines 96-114.
get_lead(p, lead_id) ==
    /\ Issue(p)
    /\ LET db_lead == get(lead_id) IN
       IF db_lead = NoLead
       THEN Respond(p, "get_lead", lead_id, <<>>, FALSE,
                    GetLeadStatus("LeadNotFoundException"), [error |-> "LeadNotFoundException"])
       ELSE Respond(p, "get_lead", lead_id, <<>>, TRUE, ReturnStatus(200, db_lead), db_lead)
    /\ Finish(p)
    /\ UNCHANGED <<store, nextId, now, uniqueEmail, broadcasts, deleted>>

\* delete_lead, lines 166-170: lead.delete, then the call of broadcast_lead_change.
delete_lead(p, lead_id) ==
    /\ Issue(p)
    /\ IF ~IsObjectId(lead_id)
       THEN /\ Respond(p, "delete_lead", lead_id, <<>>, FALSE,
                       DeleteLeadStatus("InvalidId"), [error |-> "InvalidId"])
            /\ Finish(p)
            /\ UNCHANGED <<store, broadcasts, deleted>>
       ELSE LET deleted_lead == get(lead_id) IN
            /\ store' = FindOneAndDelete(store, lead_id)
            /\ deleted' = IF lead_id \in DOMAIN store THEN deleted \cup {lead_id} ELSE deleted
            /\ broadcasts' = Append(broadcasts, BroadcastCall(deleted_lead, "delete", p))
            /\ Suspend(p, "broadcast",
                       [op |-> "delete_lead", id |-> lead_id, input |-> <<>>,
                        hit |-> lead_id \in DOMAIN store, lead |-> deleted_lead])
    /\ UNCHANGED <<nextId, now, uniqueEmail>>

\* The awaited broadcast_lead_change returns or raises; the handler answers.
broadcast_return(p) ==
    /\ pc[p] = "broadcast"
    /\ \E raised \in BOOLEAN :
         LET ok_status == IF req[p].op = "create_lead" THEN 201 ELSE 200
             err_status == CASE req[p].op = "create_lead" -> CreateLeadStatus("Exception")
                             [] req[p].op = "update_lead" -> UpdateLeadStatus("Exception")
                             [] OTHER -> DeleteLeadStatus("Exception")
         IN IF raised
            THEN Respond(p, req[p].op, req[p].id, req[p].input, req[p].hit, err_status,
                         [error |-> "Exception"])
            ELSE Respond(p, req[p].op, req[p].id, req[p].input, req[p].hit,
                         ReturnStatus(ok_status, req[p].lead),
                         IF IsLead(req[p].lead) THEN req[p].lead
                         ELSE [error |-> "ResponseValidationError"])
    /\ Finish(p)
    /\ UNCHANGED <<store, nextId, now, uniqueEmail, broadcasts, deleted, ops>>

\* CRUDLead.update from its find_one_and_update on (lines 108-116), and what
\* the caller of update does with the outcome.
UpdateFinish(p, via, lead_id, lead_update, update_dict) ==
    LET outcome == UpdateOutcome(store, lead_id, update_dict) IN
    /\ store' = UpdateStore(store, lead_id, update_dict)
    /\ IF via = "update_lead" /\ "error" \notin DOMAIN outcome
       THEN /\ broadcasts' = Append(broadcasts, BroadcastCall(outcome, "update", p))
            /\ Suspend(p, "broadcast",
                       [op |-> via, id |-> lead_id, input |-> lead_update,
                        hit |-> TRUE, lead |-> outcome])
       ELSE /\ Respond(p, via, lead_id, lead_update,
                       IsObjectId(lead_id) /\ lead_id \in DOMAIN store,
                       IF via = "update_lead" THEN UpdateLeadStatus(outcome.error) ELSE 0,
                       outcome)
            /\ Finish(p)
            /\ UNCHANGED broadcasts

\* CRUDLead.update, lines 93-106, up to its first await after which the store
\* can have changed: with current_stage in the input the lead is read first
\* and the write follows in a later step; without it the write is at once.
UpdateStart(p, via, lead_id, lead_update) ==
    \E t \in ClockReads(3) :
        /\ now' = t[3]
        /\ IF "current_stage" \in DOMAIN ModelDumpExcludeUnset(lead_update)
           THEN /\ Suspend(p, "update_write",
                           [op |-> via, id |-> lead_id, input |-> lead_update,
                            current_lead |-> get(lead_id), started |-> now,
                            update_dict |-> UpdateDict(lead_update, get(lead_id), t)])
                /\ UNCHANGED <<store, broadcasts>>
           ELSE UpdateFinish(p, via, lead_id, lead_update,
                             UpdateDict(lead_update, NoLead, t))

\* A call of the repository's update(id, lead_update).
update(p, lead_id, lead_update) ==
    /\ Issue(p)
    /\ UpdateStart(p, "update", lead_id, lead_update)
    /\ UNCHANGED <<nextId, uniqueEmail, deleted>>

\* CRUDLead.update's find_one_and_update, after the awaited get.
update_write(p) ==
    /\ pc[p] = "update_write"
    /\ UpdateFinish(p, req[p].op, req[p].id, req[p].input, req[p].update_dict)
    /\ UNCHANGED <<nextId, now, uniqueEmail, deleted, ops>>

\* lead_in without its null-valued keys (line 132).
StripNone(lead_in) ==
    [k \in {f \in DOMAIN lead_in : ~(f \in {"name", "email", "company", "current_stage", "status"}
                                      /\ lead_in[f] = None)} |-> lead_in[k]]

\* What update_lead receives: a mapping that may hold null values.
LeadInInputs == UpdateInputs \cup { [name |-> None] }

\* update_lead, lines 123-157.
update_lead(p, lead_id, lead_in) ==
    /\ Issue(p)
    /\ LET existing_lead == get(lead_id)
           update_data == StripNone(lead_in)
       IN IF existing_lead = NoLead
          THEN /\ Respond(p, "update_lead", lead_id, lead_in, FALSE,
                          UpdateLeadStatus("LeadNotFoundException"),
                          [error |-> "LeadNotFoundException"])
               /\ Finish(p)
               /\ UNCHANGED <<store, now, broadcasts>>
          ELSE IF ~CallBinds(UpdateLeadKeywords, UpdateParams)
          THEN /\ Respond(p, "update_lead", lead_id, lead_in, TRUE,
                          UpdateLeadStatus("TypeError"), [error |-> "TypeError"])
               /\ Finish(p)
               /\ UNCHANGED <<store, now, broadcasts>>
          ELSE UpdateStart(p, "update_lead", lead_id, update_data)
    /\ UNCHANGED <<nextId, uniqueEmail, deleted>>

Next ==
    \/ \E p \in Callers, lead_data \in CreateInputs : create_lead(p, lead_data)
    \/ \E p \in Callers, lead_id \in RequestIds : get_lead(p, lead_id)
    \/ \E p \in Callers, lead_id \in RequestIds : delete_lead(p, lead_id)
    \/ \E p \in Callers, lead_id \in RequestIds, lead_update \in UpdateInputs :
           update(p, lead_id, lead_update)
    \/ \E p \in Callers : update_write(p)
    \/ \E p \in Callers, lead_id \in RequestIds, lead_in \in LeadInInputs :
           update_lead(p, lead_id, lead_in)
    \/ \E p \in Callers : broadcast_return(p)

Spec == Init /\ [][Next]_vars

\* The store answers every query it is sent, so the write of a two-step
\* update is not put off for ever.  The return of broadcast_lead_change
\* waits for the observers' connections and has no such guarantee.
FairSpec == Spec /\ \A p \in Callers : WF_vars(update_write(p))

\* The collection holding one lead that was created in STAGE_2.
StagedInit ==
    /\ store = InsertOne(<<>>, 1, CreateDict(LeadCreate("a@x.com", "STAGE_2", NoTime, <<>>),
                                             [i \in 1..4 |-> 0]))
    /\ nextId = 2
    /\ now = 0
    /\ uniqueEmail \in BOOLEAN
    /\ pc = [p \in Callers |-> "idle"]
    /\ req = [p \in Callers |-> NoReq]
    /\ resp = NoResp
    /\ broadcasts = <<>>
    /\ deleted = {}
    /\ ops = 0

StagedSpec == StagedInit /\ [][Next]_vars

\* ---------------------------------------------------------- the list query

\* The characters of the strings that occur as name, email, company or
\* search term.
Chars(s) ==
    CASE s = "A" -> <<"A">>
      [] s = "B" -> <<"B">>
      [] s = "Acme" -> <<"A", "c", "m", "e">>
      [] s = "a@x.com" -> <<"a", "@", "x", ".", "c", "o", "m">>
      [] s = "b@x.com" -> <<"b", "@", "x", ".", "c", "o", "m">>
      [] s = "b" -> <<"b">>
      [] s = "ACME" -> <<"A", "C", "M", "E">>
      [] s = "a@x" -> <<"a", "@", "x">>
      [] s = "a.x" -> <<"a", ".", "x">>
      [] s = "" -> <<>>

\* Case folding of "$options": "i".
Lower(c) ==
    CASE c = "A" -> "a"
      [] c = "B" -> "b"
      [] c = "C" -> "c"
      [] c = "E" -> "e"
      [] c = "M" -> "m"
      [] OTHER -> c

\* Values of the search parameter of get_multi and get_count: absent, empty,
\* plain terms, and a term with the regular-expression character ".".
Searches == {None, "", "b", "ACME", "a@x", "a.x"}

\* Values of sort_by (app.models.enums.SortField).
SortFields == {"created_at", "name"}

\* Bounds of the page_size parameter: Query(10, ge=1, le=100).
MinPageSize == 1
MaxPageSize == 100

\* Python's truth value of search in `if search:`.
Truthy(search) == search # None /\ search # ""

\* {"$regex": pattern, "$options": "i"}: the pattern, a regular expression,
\* matches somewhere in text, letter case ignored; "." matches any character.
Regex(pattern, text) ==
    \E i \in 0..(Len(text) - Len(pattern)) :
        \A j \in 1..Len(pattern) :
            pattern[j] = "." \/ Lower(pattern[j]) = Lower(text[i + j])

\* filter_query of get_multi and get_count (crud/lead.py 48-55, 129-136):
\* doc passes it.
Filter(doc, search) ==
    Truthy(search) =>
        \E f \in {"name", "email", "company"} :
            f \in DOMAIN doc /\ Regex(Chars(search), Chars(doc[f]))

\* The ids of the documents of st that pass the filter.
Matching(st, search) == {i \in DOMAIN st : Filter(st[i], search)}

\* The value a document is sorted by; strings compare by code point.
SortKey(doc, sort_by) ==
    IF sort_by = "name"
    THEN (CASE doc["name"] = "A" -> 65 [] doc["name"] = "B" -> 66)
    ELSE doc[sort_by]

\* The enumerations of the id set S without repetition.
Orders(S) ==
    {s \in [1..Cardinality(S) -> S] : \A a, b \in 1..Cardinality(S) : a # b => s[a] # s[b]}

\* cursor.sort(sort_by, -1 if sort_desc else 1): the orders the store can
\* return the documents S in; the order of equal keys is the store's choice.
Sort(st, S, sort_by, sort_desc) ==
    {s \in Orders(S) : \A a, b \in 1..Len(s) :
        a < b => IF sort_desc
                 THEN SortKey(st[s[a]], sort_by) >= SortKey(st[s[b]], sort_by)
                 ELSE SortKey(st[s[a]], sort_by) <= SortKey(st[s[b]], sort_by)}

\* A window that starts at the first element whatever skip is.
SkipLimitFromStart(s, skip, limit) == SubSeq(s, 1, Min(limit, Len(s)))

\* cursor.skip(skip).limit(limit) and to_list(length=limit).
SkipLimit(s, skip, limit) == SubSeq(s, skip + 1, Min(skip + limit, Len(s)))

\* CRUDLead.get_multi: the lists it can return on the store st.
get_multi(st, skip, limit, sort_by, sort_desc, search) ==
    { [k \in DOMAIN ids |-> LeadValidate(ConvertId(RawDoc(st, ids[k])))] :
        ids \in { SkipLimit(s, skip, limit) :
                    s \in Sort(st, Matching(st, search), sort_by, sort_desc) } }

\* CRUDLead.get_count: count_documents(filter_query).
get_count(st, search) == Cardinality(Matching(st, search))

\* total // page_size, the pages that are full.
FullPages(total_count, page_size) == total_count \div page_size

\* total_pages of get_leads (endpoints/leads.py 44).
TotalPages(total_count, page_size) == (total_count + page_size - 1) \div page_size

\* The page numbers and page sizes of the list requests.
Pages == 1..MaxPage
PageSizes == {MinPageSize, 2, MaxPageSize}

\* The parameters of a list request, as the request layer admits them
\* (search has min_length=1, so the empty term does not arrive here).
ListQueries ==
    [page : Pages, page_size : PageSizes, sort_by : SortFields,
     sort_desc : BOOLEAN, search : Searches \ {""}]

\* The response model LeadPaginatedResponse around the result of a list
\* request; fixed tells that the two queries saw the same collection.
ListRespond(p, q, fixed, items, total_count) ==
    resp' = [op |-> "get_leads", input |-> q, fixed |-> fixed,
             status |-> IF items = <<>> THEN 204 ELSE 200,
             items |-> items, total |-> total_count,
             page |-> q.page, page_size |-> q.page_size,
             total_pages |-> TotalPages(total_count, q.page_size)]

\* get_leads, lines 33-41: skip, and the await of lead.get_multi.
get_leads(p, q) ==
    /\ Issue(p)
    /\ LET skip == (q.page - 1) * q.page_size IN
       \E items \in get_multi(store, skip, q.page_size, q.sort_by, q.sort_desc, q.search) :
           Suspend(p, "get_count", [op |-> "get_leads", input |-> q,
                                    items |-> items, seen |-> store])
    /\ UNCHANGED <<store, nextId, now, uniqueEmail, broadcasts, deleted>>

\* get_leads, lines 43-55: the await of lead.get_count, total_pages and the
\* response.
get_leads_count(p) ==
    /\ pc[p] = "get_count"
    /\ ListRespond(p, req[p].input, req[p].seen = store, req[p].items,
                   get_count(store, req[p].input.search))
    /\ Finish(p)
    /\ UNCHANGED <<store, nextId, now, uniqueEmail, broadcasts, deleted, ops>>

\* Collections for the list requests: empty, and up to three leads that
\* creates and an update have stored, two of them with the same created_at
\* and two with the same name.
ListLead1 == CreateDict(LeadCreate("a@x.com", "NEW_LEAD", NoTime, <<>>), [i \in 1..4 |-> 0])
ListLead2 == CreateDict(LeadCreate("b@x.com", "NEW_LEAD", NoTime, <<>>), [i \in 1..4 |-> 1])
ListLead3 == CreateDict(LeadCreate("a@x.com", "STAGE_2", NoTime, <<>>), [i \in 1..4 |-> 1])

ListStores ==
    LET s1 == InsertOne(<<>>, 1, ListLead1)
        s2 == InsertOne(s1, 2, ListLead2)
        s3 == InsertOne(s2, 3, ListLead3)
    IN { <<>>, s1, s2, FindOneAndUpdate(s3, 1, [name |-> "B", updated_at |-> 1]) }

ListInit ==
    /\ store \in ListStores
    /\ nextId = Cardinality(DOMAIN store) + 1
    /\ now = IF Cardinality(DOMAIN store) > 1 THEN 1 ELSE 0
    /\ uniqueEmail = FALSE
    /\ pc = [p \in Callers |-> "idle"]
    /\ req = [p \in Callers |-> NoReq]
    /\ resp = NoResp
    /\ broadcasts = <<>>
    /\ deleted = {}
    /\ ops = 0

\* The caller that lists; list requests only read, so one caller issuing
\* them suffices.
ListCaller == "u1"

\* The list requests on a collection that nothing else touches.
ListNext ==
    \/ \E q \in ListQueries : get_leads(ListCaller, q)
    \/ get_leads_count(ListCaller)

ListSpec == ListInit /\ [][ListNext]_vars

\* The list requests that run among creates and deletes: the first two
\* pages, of one or two leads, in the default order.
RaceQueries ==
    {q \in ListQueries : /\ q.page <= 2 /\ q.page_size <= 2 /\ q.search = None
                         /\ q.sort_by = "created_at" /\ q.sort_desc}

\* The list requests, among the creates and deletes of all callers.
RaceNext ==
    \/ \E q \in RaceQueries : get_leads(ListCaller, q)
    \/ get_leads_count(ListCaller)
    \/ \E p \in Callers, lead_data \in CreateInputs : create_lead(p, lead_data)
    \/ \E p \in Callers, lead_id \in RequestIds : delete_lead(p, lead_id)
    \/ \E p \in Callers : broadcast_return(p)

RaceSpec == ListInit /\ [][RaceNext]_vars

\* total_pages for a total that count_documents could return.
total_pages(total_count, page_size) ==
    /\ resp' = [op |-> "total_pages", total |-> total_count, page_size |-> page_size,
                total_pages |-> TotalPages(total_count, page_size)]
    /\ UNCHANGED <<store, nextId, now, uniqueEmail, pc, req, broadcasts, deleted, ops>>

PagesNext ==
    \E total_count \in 0..MaxTotal, page_size \in MinPageSize..MaxPageSize :
        total_pages(total_count, page_size)

PagesSpec == ListInit /\ [][PagesNext]_vars

\* ------------------------------------------------------------ the claims

\* The step is caller p's successful create: lead.create has returned.
CreateStep(p) ==
    pc[p] = "idle" /\ pc'[p] = "broadcast" /\ req'[p].op = "create_lead"

\* h is the history create seeds for a lead in stage.
SeedHistory(h, stage) ==
    Len(h) = 1 /\ h[1].from_stage = None /\ h[1].to_stage = stage

\* C1: right after a successful create, the stored lead and the returned lead
\* have a stage_history of exactly one entry, from null to the lead's
\* current_stage, whatever stage_history or stage_updated_at the input carried.
C1_CreateSeedsHistory ==
    [][\A p \in Callers : CreateStep(p) =>
          LET returned == req'[p].lead
              stored == store'[req'[p].id]
          IN /\ IsLead(returned)
             /\ SeedHistory(returned.stage_history, returned.current_stage)
             /\ SeedHistory(stored["stage_history"], stored["current_stage"])
             /\ stored["current_stage"] = req'[p].input.current_stage]_vars

\* A create has just succeeded on an input that carried its own history and
\* stage time.
C1_Witness ==
    \E p \in Callers :
        /\ pc[p] = "broadcast" /\ req[p].op = "create_lead"
        /\ req[p].input.stage_history # <<>>
        /\ req[p].input.stage_updated_at # NoTime
        /\ req[p].id \in DOMAIN store
        /\ Len(store[req[p].id]["stage_history"]) = 1

\* The step is the find_one_and_update of caller p's two-step update on a
\* lead that is in the store and that the index does not reject.
WriteStep(p) ==
    /\ pc[p] = "update_write" /\ pc'[p] # "update_write"
    /\ IsObjectId(req[p].id) /\ req[p].id \in DOMAIN store
    /\ ~DuplicateKey(store, req[p].id, req[p].update_dict)

\* The step is a one-step update (no current_stage in the input) that wrote
\* the lead resp'.id.
DirectWriteStep ==
    /\ ops' = ops + 1 /\ resp'.op = "update" /\ resp'.hit
    /\ resp'.body # "DuplicateKeyError"

\* h2 is h followed by exactly one entry from stage a to stage b.
ExtendsByOne(h2, h, a, b) ==
    /\ Len(h2) = Len(h) + 1
    /\ SubSeq(h2, 1, Len(h)) = h
    /\ h2[Len(h2)].from_stage = a
    /\ h2[Len(h2)].to_stage = b

\* C2: an update of an existing lead that changes current_stage from A to B
\* (A # B), with nothing interleaved between its read and its write, stores
\* the old stage_history followed by exactly one entry A -> B, and stage B.
C2_StageChangeAppendsOneEntry ==
    [][\A p \in Callers :
          (/\ WriteStep(p)
           /\ req[p].current_lead = get(req[p].id)
           /\ req[p].input.current_stage # store[req[p].id]["current_stage"])
          => LET i == req[p].id IN
             /\ i \in DOMAIN store'
             /\ store'[i]["current_stage"] = req[p].input.current_stage
             /\ ExtendsByOne(store'[i]["stage_history"], store[i]["stage_history"],
                             store[i]["current_stage"], req[p].input.current_stage)]_vars

\* An update has just changed the stage of a lead that already had a history
\* of two entries.
C2_Witness ==
    /\ resp.op = "update" /\ resp.hit /\ resp.body = "ValidationError"
    /\ "current_stage" \in DOMAIN resp.input
    /\ resp.id \in DOMAIN store
    /\ Len(store[resp.id]["stage_history"]) = 3
    /\ store[resp.id]["stage_history"][3].to_stage = resp.input.current_stage

\* C3: an update of an existing lead whose input has no current_stage, or the
\* current_stage the lead has when the update reads it, leaves stage_history
\* and stage_updated_at as they were and sets updated_at to a time read during
\* the update.
C3_NoStageChangeKeepsHistory ==
    [][/\ \A p \in Callers :
            (/\ WriteStep(p)
             /\ req[p].current_lead # NoLead
             /\ req[p].input.current_stage = req[p].current_lead.current_stage)
            => LET i == req[p].id IN
               /\ store'[i]["stage_history"] = store[i]["stage_history"]
               /\ store'[i]["stage_updated_at"] = store[i]["stage_updated_at"]
               /\ req[p].started <= store'[i]["updated_at"]
               /\ store'[i]["updated_at"] <= now'
       /\ (DirectWriteStep /\ "current_stage" \notin DOMAIN resp'.input)
            => LET i == resp'.id IN
               /\ store'[i]["stage_history"] = store[i]["stage_history"]
               /\ store'[i]["stage_updated_at"] = store[i]["stage_updated_at"]
               /\ now <= store'[i]["updated_at"]
               /\ store'[i]["updated_at"] <= now'
               /\ (now' > now => store'[i]["updated_at"] > store[i]["updated_at"])]_vars

\* An update that names the stage the lead already has was applied, at a
\* later time than the lead's last stage change.
C3_Witness ==
    /\ resp.op = "update" /\ resp.hit /\ resp.body = "ValidationError"
    /\ "current_stage" \in DOMAIN resp.input
    /\ resp.id \in DOMAIN store
    /\ store[resp.id]["name"] = "B"
    /\ Len(store[resp.id]["stage_history"]) = 1
    /\ store[resp.id]["updated_at"] > store[resp.id]["stage_updated_at"]

\* The fields an update may change without their being in the input.
UpdateStamps == {"updated_at", "stage_updated_at", "stage_history"}

\* Document d2 is document d after a partial update with the fields of input:
\* no key is lost, every key outside input and the stamps keeps its value, and
\* the stage stamps move only if stage_changed.
PartialUpdate(d2, d, input, stage_changed) ==
    /\ DOMAIN d \subseteq DOMAIN d2
    /\ DOMAIN d2 \subseteq DOMAIN d \cup DOMAIN input \cup UpdateStamps
    /\ \A f \in DOMAIN d : f \notin DOMAIN input \cup UpdateStamps => d2[f] = d[f]
    /\ \A f \in DOMAIN input : d2[f] = input[f]
    /\ d2["created_at"] = d["created_at"]
    /\ ~stage_changed => /\ d2["stage_history"] = d["stage_history"]
                         /\ d2["stage_updated_at"] = d["stage_updated_at"]

\* C4: update is a partial update: a field that is not in the input keeps its
\* value (but updated_at, and stage_updated_at and stage_history when the
\* update makes a stage change); no update changes a lead's id or created_at,
\* or any other lead.
C4_UpdateIsPartial ==
    [][/\ \A p \in Callers : WriteStep(p) =>
            LET i == req[p].id IN
            /\ DOMAIN store' = DOMAIN store
            /\ \A j \in DOMAIN store \ {i} : store'[j] = store[j]
            /\ PartialUpdate(store'[i], store[i], req[p].input,
                   /\ req[p].current_lead # NoLead
                   /\ req[p].input.current_stage # req[p].current_lead.current_stage)
       /\ DirectWriteStep =>
            LET i == resp'.id IN
            /\ DOMAIN store' = DOMAIN store
            /\ \A j \in DOMAIN store \ {i} : store'[j] = store[j]
            /\ PartialUpdate(store'[i], store[i], resp'.input, FALSE)
       /\ (ops' = ops + 1 /\ resp'.op = "update_lead") => store' = store]_vars

\* An update of the email alone was applied to a lead whose stage had been
\* changed before.
C4_Witness ==
    /\ resp.op = "update" /\ resp.hit /\ resp.body = "ValidationError"
    /\ DOMAIN resp.input = {"email"}
    /\ resp.id \in DOMAIN store
    /\ store[resp.id]["email"] = "b@x.com"
    /\ store[resp.id]["name"] = "B"
    /\ Len(store[resp.id]["stage_history"]) = 2

\* The last call of broadcast_lead_change was for this update of lead i.
LastBroadcastIsUpdate(i) ==
    /\ broadcasts # <<>>
    /\ broadcasts[Len(broadcasts)].action = "update"
    /\ broadcasts[Len(broadcasts)].lead = "Lead"
    /\ broadcasts[Len(broadcasts)].id = i

\* C5: an update request for an existing lead with a non-empty valid partial
\* input succeeds: the caller receives the updated Lead (200), after
\* broadcast_lead_change was called with that lead and action "update".
C5_UpdateRequestSucceeds ==
    (resp.op = "update_lead" /\ resp.hit /\ resp.input \in UpdateInputs)
    => /\ resp.status = 200
       /\ resp.body = "Lead"
       /\ LastBroadcastIsUpdate(resp.id)

\* C6: an operation that writes stage_updated_at stores the same time in
\* updated_at and in the changed_at of the entry it adds (and, for create, in
\* created_at), even when the clock advances between its clock reads.
C6_StampsAgree ==
    [][/\ \A p \in Callers : CreateStep(p) =>
            LET d == store'[req'[p].id] IN
            /\ d["stage_updated_at"] = d["updated_at"]
            /\ d["stage_updated_at"] = d["created_at"]
            /\ d["stage_updated_at"] = d["stage_history"][1].changed_at
       /\ \A p \in Callers :
            (/\ WriteStep(p)
             /\ "stage_updated_at" \in DOMAIN req[p].update_dict)
            => LET d == store'[req[p].id] IN
               /\ d["stage_updated_at"] = d["updated_at"]
               /\ d["stage_updated_at"] =
                      d["stage_history"][Len(d["stage_history"])].changed_at]_vars

\* h is a prefix of h2.
IsPrefix(h, h2) == Len(h) <= Len(h2) /\ SubSeq(h2, 1, Len(h)) = h

\* C7: stage_history is append-only under any interleaving: in every step the
\* history a stored lead had is a prefix of the history it has afterwards.
C7_HistoryAppendOnly ==
    [][\A i \in DOMAIN store \cap DOMAIN store' :
          IsPrefix(store[i]["stage_history"], store'[i]["stage_history"])]_vars

\* C8: once a delete has removed a lead, no later operation brings it back:
\* the repository's get returns no lead for its id and get_lead answers 404.
C8_DeletedStaysNotFound ==
    /\ \A i \in deleted : get(i) = NoLead
    /\ (resp.op = "get_lead" /\ resp.id \in deleted)
           => (resp.status = 404 /\ resp.body = "LeadNotFoundException")

\* A get_lead for the id of a deleted lead has just been answered.
C8_Witness ==
    resp.op = "get_lead" /\ resp.id \in deleted

\* C9: a delete request for a (well-formed) id that is not in the store is
\* answered 404, and broadcast_lead_change is not called for it.
C9_DeleteAbsentIsNotFound ==
    /\ (resp.op = "delete_lead" /\ IsObjectId(resp.id) /\ ~resp.hit) => resp.status = 404
    /\ \A k \in 1..Len(broadcasts) :
           broadcasts[k].action = "delete" => broadcasts[k].lead = "Lead"

\* C10: under a unique index on email, a create whose email a stored lead
\* already has is answered 409 (DuplicateLead), stores nothing and calls no
\* broadcast.
C10_DuplicateCreateIsConflict ==
    [][(/\ ops' = ops + 1
        /\ uniqueEmail
        /\ \/ resp'.op = "create_lead" /\ resp'.hit
           \/ \E p \in Callers : CreateStep(p) /\ req'[p].hit)
       => (/\ resp'.op = "create_lead"
           /\ resp'.status = 409
           /\ store' = store
           /\ broadcasts' = broadcasts)]_vars

\* term occurs in text as a substring, letter case ignored.
Contains(term, text) ==
    \E i \in 0..(Len(text) - Len(term)) :
        \A j \in 1..Len(term) : Lower(term[j]) = Lower(text[i + j])

\* The leads the search is to select: all of them for an absent or empty
\* term, else those whose name, email or company contains the term.
Selected(st, search) ==
    {i \in DOMAIN st :
        (search # None /\ search # "") =>
            \E f \in {"name", "email", "company"} : Contains(Chars(search), Chars(st[i][f]))}

\* On the present collection get_count(search) is the length of every list
\* get_multi can return for skip 0 and a limit that cuts nothing off.
CountIsLengthOfMulti ==
    \A search \in Searches, sort_by \in SortFields, sort_desc \in BOOLEAN :
        \A leads \in get_multi(store, 0, Cardinality(DOMAIN store) + 1,
                               sort_by, sort_desc, search) :
            Len(leads) = get_count(store, search)

\* C11: for every collection and every search value (absent, empty or not),
\* get_count(search) equals the number of leads get_multi returns for that
\* search with skip 0 and no effective limit, and both select all leads for an
\* absent or empty search and otherwise the leads whose name, email or company
\* contains the term, letter case ignored.
C11_CountMatchesMulti ==
    /\ CountIsLengthOfMulti
    /\ \A search \in Searches :
           /\ get_count(store, search) = Cardinality(Selected(store, search))
           /\ \A leads \in get_multi(store, 0, Cardinality(DOMAIN store) + 1,
                                     "created_at", TRUE, search) :
                  {leads[k].id : k \in DOMAIN leads} = Selected(store, search)

\* The lead the collection holds under id i, as the list returns it.
StoredLead(i) == LeadValidate(ConvertId(RawDoc(store, i)))

\* The value of the sort field of a lead; names compare by code point.
KeyOf(lead, sort_by) ==
    IF sort_by = "name"
    THEN (CASE lead.name = "A" -> 65 [] lead.name = "B" -> 66)
    ELSE lead[sort_by]

\* full lists every lead that passes the filter exactly once, in the order
\* of sort_by and the direction asked for.
IsFullResult(full, q) ==
    /\ Len(full) = Cardinality(Matching(store, q.search))
    /\ {full[k] : k \in DOMAIN full} = {StoredLead(i) : i \in Matching(store, q.search)}
    /\ \A a, b \in DOMAIN full :
           a < b => IF q.sort_desc
                    THEN KeyOf(full[a], q.sort_by) >= KeyOf(full[b], q.sort_by)
                    ELSE KeyOf(full[a], q.sort_by) <= KeyOf(full[b], q.sort_by)

\* The candidates for the full result: the enumerations of the filtered leads.
Enumerations(q) ==
    { [k \in DOMAIN s |-> StoredLead(s[k])] : s \in Orders(Matching(store, q.search)) }

\* C12: on a collection that does not change during the request, the list
\* request for page p and page size s returns the elements at the positions
\* (p-1)*s+1 .. p*s of the full filtered result sorted by sort_by in the
\* requested direction: at most s items, fewer on the last page, none for a
\* page beyond the result, and total is the number of all matches.
C12_PageIsWindowOfSortedResult ==
    (resp.op = "get_leads" /\ resp.fixed) =>
        LET q == resp.input
            first == (q.page - 1) * q.page_size + 1
            last == q.page * q.page_size
        IN /\ \E full \in Enumerations(q) :
                  /\ IsFullResult(full, q)
                  /\ resp.total = Len(full)
                  /\ Len(resp.items) = Cardinality({k \in DOMAIN full : first <= k /\ k <= last})
                  /\ \A k \in DOMAIN resp.items : resp.items[k] = full[first + k - 1]
           /\ Len(resp.items) <= q.page_size
           /\ (first > resp.total => resp.items = <<>>)

\* The second page of size two of a result of three leads: one item.
C12_Witness ==
    /\ resp.op = "get_leads" /\ resp.fixed
    /\ resp.page = 2 /\ resp.page_size = 2
    /\ resp.total = 3 /\ Len(resp.items) = 1

\* n is the ceiling of total / page_size.
IsCeiling(n, total, page_size) ==
    /\ n * page_size >= total
    /\ (n - 1) * page_size < total

\* C13: for every total >= 0 and page_size in 1..100, total_pages is the
\* ceiling of total / page_size, and 0 when total is 0.
C13_TotalPagesIsCeiling ==
    resp.op \in {"total_pages", "get_leads"} =>
        /\ IsCeiling(resp.total_pages, resp.total, resp.page_size)
        /\ (resp.total = 0 => resp.total_pages = 0)

\* total_pages was computed for a total that page_size does not divide and
\* that fills more than one page.
C13_Witness ==
    /\ resp.op = "total_pages"
    /\ resp.total > resp.page_size /\ resp.total % resp.page_size # 0
    /\ resp.total_pages = resp.total \div resp.page_size + 1

\* C14: every call of broadcast_lead_change(lead, action, actor) is made for a
\* mutation of that kind that the same request has just committed on exactly
\* that lead: an insert for "create", a modification for "update", a removal
\* for "delete"; a request that changed nothing in the store broadcasts nothing.
C14_BroadcastFollowsCommit ==
    [][broadcasts' # broadcasts =>
          LET call == broadcasts'[Len(broadcasts')] IN
          /\ broadcasts' = Append(broadcasts, call)
          /\ call.lead = "Lead"
          /\ call.action = "create" => call.id \notin DOMAIN store /\ call.id \in DOMAIN store'
          /\ call.action = "update" => /\ call.id \in DOMAIN store /\ call.id \in DOMAIN store'
                                       /\ store'[call.id] # store[call.id]
          /\ call.action = "delete" => call.id \in DOMAIN store /\ call.id \notin DOMAIN store']_vars

\* The broadcasts on behalf of caller p, in the order of their calls.
BroadcastsOf(log, p) == SelectSeq(log, LAMBDA call : call.user_id = p)

\* The step is a handler of caller p committing a mutation: the repository
\* call has changed the store and the handler goes on to its broadcast.
MutationStep(p) ==
    /\ pc[p] # "broadcast" /\ pc'[p] = "broadcast"
    /\ store' # store

\* The action a handler broadcasts.
ActionOf(op) ==
    CASE op = "create_lead" -> "create"
      [] op = "update_lead" -> "update"
      [] op = "delete_lead" -> "delete"

C16_ResponseNotHeldByBroadcast ==
    \A p \in Callers : (pc[p] = "broadcast") ~> (pc[p] = "idle")

\* C17: a get of an id that is malformed, or well-formed and absent from the
\* store, returns None without raising and leaves the store as it is, and
\* get_lead answers it with LeadNotFoundException, status 404.
C17_GetAbsentIsNotFound ==
    [][(ops' = ops + 1 /\ resp'.op = "get_lead") =>
          /\ store' = store
          /\ (~IsObjectId(resp'.id) \/ resp'.id \notin DOMAIN store) =>
                /\ get(resp'.id) = NoLead
                /\ resp'.status = 404
                /\ resp'.body = "LeadNotFoundException"]_vars

\* get_lead has answered a request for the malformed id.
C17_Witness ==
    /\ resp.op = "get_lead" /\ ~IsObjectId(resp.id)
    /\ resp.status = 404

\* C18: in every reachable store, under any interleaving of creates, updates
\* and deletes, each lead's current_stage is the to_stage of the last entry of
\* its stage_history, and each entry's from_stage is the to_stage of the
\* entry before it.
C18_StageMatchesHistory ==
    \A i \in DOMAIN store :
        LET h == store[i]["stage_history"] IN
        /\ Len(h) >= 1
        /\ store[i]["current_stage"] = h[Len(h)].to_stage
        /\ \A k \in 2..Len(h) : h[k].from_stage = h[k - 1].to_stage

\* The request whose coroutine has the locals r changed the store before it
\* went on to its broadcast.
Committed(r) ==
    \/ r.op \in {"create_lead", "update_lead"}
    \/ r.op = "delete_lead" /\ r.hit

\* C19: when a create, update or delete request ends with an error response
\* (404, 409, 400 or 500), also one that arises in the broadcast or while the
\* returned Lead is built, the store is as it was before the request.
C19_ErrorLeavesStoreUnchanged ==
    [][(/\ resp'.op \in {"create_lead", "update_lead", "delete_lead"}
        /\ resp'.status >= 400)
       => /\ store' = store
          /\ \A p \in Callers :
                 (pc[p] = "broadcast" /\ pc'[p] = "idle") => ~Committed(req[p])]_vars

Max(a, b) == IF a >= b THEN a ELSE b

\* C20: in every response of the list request, also when creates and deletes
\* run during it, the number of items is
\* min(page_size, max(0, total - (page-1)*page_size)).
C20_ItemsConsistentWithTotal ==
    resp.op = "get_leads" =>
        Len(resp.items) =
            Min(resp.page_size, Max(0, resp.total - (resp.page - 1) * resp.page_size))

====
